---- MODULE Spec2Model ----
(***************************************************************************)
(* A model of the recursive-descent / precedence-climbing parser of        *)
(* src/src/parser.rs.  The Parser struct is the variable p; every function *)
(* of the parser that calls another parser function is split into the      *)
(* steps between its calls, and the call stack is explicit.  The lexer and *)
(* the token and AST types are not part of parser.rs: they are modelled    *)
(* from their use in parser.rs and from the specification (sections 3, 6). *)
(***************************************************************************)
EXTENDS Naturals, Sequences, FiniteSets, TLC

(***************************************************************************)
(* Tokens.  Token::Ident and Token::Int carry their text (a sequence of    *)
(* one-character strings); every other token carries nothing.              *)
(***************************************************************************)
Tok(t) == [type |-> t, lit |-> <<>>]
Ident(v) == [type |-> "Ident", lit |-> v]
Int(v) == [type |-> "Int", lit |-> v]
Eof == Tok("Eof")
Let == Tok("Let")
Return == Tok("Return")
True == Tok("True")
False == Tok("False")
Assign == Tok("Assign")
Bang == Tok("Bang")
Minus == Tok("Minus")
Plus == Tok("Plus")
Slash == Tok("Slash")
Asterisk == Tok("Asterisk")
Eq == Tok("Eq")
NotEq == Tok("NotEq")
Lt == Tok("Lt")
Gt == Tok("Gt")
LParen == Tok("LParen")
RParen == Tok("RParen")
Semicolon == Tok("Semicolon")

\* The eight tokens matched in the infix loop and in parse_infix_expression.
InfixTokens == {Plus, Minus, Slash, Asterisk, Eq, NotEq, Lt, Gt}

\* Option<T>: None is the empty sequence, Some(x) the one-element sequence.
None == <<>>
Some(x) == <<x>>

(***************************************************************************)
(* enum Precedence, ordered by its discriminants (derive PartialOrd).      *)
(***************************************************************************)
Lowest == 0
Equals == 1
LessGreater == 2
Sum == 3
Product == 4
Prefix == 5
Call == 6

\* peek_precedence with the arms of Plus and Asterisk exchanged
TokenPrecedenceExchanged(t) ==
    CASE t = Eq -> Equals
      [] t = NotEq -> Equals
      [] t = Lt -> LessGreater
      [] t = Gt -> LessGreater
      [] t = Plus -> Product
      [] t = Minus -> Sum
      [] t = Asterisk -> Sum
      [] t = Slash -> Product
      [] OTHER -> Lowest

\* peek_precedence with an arm for LParen, which is no binary operator
TokenPrecedenceWithCall(t) ==
    CASE t = Eq -> Equals
      [] t = NotEq -> Equals
      [] t = Lt -> LessGreater
      [] t = Gt -> LessGreater
      [] t = Plus -> Sum
      [] t = Minus -> Sum
      [] t = Asterisk -> Product
      [] t = Slash -> Product
      [] t = LParen -> Call
      [] OTHER -> Lowest

\* The match of peek_precedence and cur_precedence, on a token.
TokenPrecedence(t) ==
    CASE t = Eq -> Equals
      [] t = NotEq -> Equals
      [] t = Lt -> LessGreater
      [] t = Gt -> LessGreater
      [] t = Plus -> Sum
      [] t = Minus -> Sum
      [] t = Asterisk -> Product
      [] t = Slash -> Product
      [] OTHER -> Lowest

(***************************************************************************)
(* str::parse::<i64> on the text of an integer token.  TLC's integers are  *)
(* 32 bits wide, so the i64 value is kept as its canonical decimal numeral *)
(* (the digits without leading zeros) and the range check compares the     *)
(* numeral with that of i64::MAX digit by digit.                           *)
(***************************************************************************)
Digits == {"0", "1", "2", "3", "4", "5", "6", "7", "8", "9"}

DigitVal(c) ==
    CASE c = "0" -> 0 [] c = "1" -> 1 [] c = "2" -> 2 [] c = "3" -> 3
      [] c = "4" -> 4 [] c = "5" -> 5 [] c = "6" -> 6 [] c = "7" -> 7
      [] c = "8" -> 8 [] c = "9" -> 9

I64Max == <<"9", "2", "2", "3", "3", "7", "2", "0", "3", "6",
            "8", "5", "4", "7", "7", "5", "8", "0", "7">>

RECURSIVE StripZeros(_)
StripZeros(s) ==
    IF Len(s) > 1 /\ s[1] = "0" THEN StripZeros(Tail(s)) ELSE s

\* a <= b for two numerals of the same length
RECURSIVE NumeralLeq(_, _)
NumeralLeq(a, b) ==
    IF a = <<>> THEN TRUE
    ELSE IF DigitVal(a[1]) < DigitVal(b[1]) THEN TRUE
    ELSE IF DigitVal(a[1]) > DigitVal(b[1]) THEN FALSE
    ELSE NumeralLeq(Tail(a), Tail(b))

\* Ok(i) is Some(numeral of i), Err(_) is None.
ParseI64(s) ==
    IF s = <<>> \/ \E i \in 1..Len(s) : s[i] \notin Digits THEN None
    ELSE LET n == StripZeros(s)
         IN  IF Len(n) > Len(I64Max) THEN None
             ELSE IF Len(n) = Len(I64Max) /\ ~NumeralLeq(n, I64Max) THEN None
             ELSE Some(n)

(***************************************************************************)
(* The lexer: a token sequence and the position of the next token to hand  *)
(* out; past the end it hands out Token::Eof again and again.              *)
(***************************************************************************)
Lexer(input) == [input |-> input, position |-> 1]

LexerNextToken(l) ==
    IF l.position <= Len(l.input)
    THEN [tok |-> l.input[l.position],
          l |-> [l EXCEPT !.position = l.position + 1]]
    ELSE [tok |-> Eof, l |-> l]

(***************************************************************************)
(* The Parser struct and its non-recursive methods, as functions from the  *)
(* parser to the parser.                                                   *)
(***************************************************************************)
NextToken(q) ==
    LET n == LexerNextToken(q.l)
    IN  [q EXCEPT !.cur = q.peek, !.peek = n.tok, !.l = n.l]

New(l) ==
    LET c == LexerNextToken(l)
        k == LexerNextToken(c.l)
    IN  [l |-> k.l, cur |-> c.tok, peek |-> k.tok, errors |-> <<>>]

CurTokenIs(q, tok) == q.cur = tok

PeekTokenIs(q, tok) == q.peek = tok

PeekPrecedence(q) == TokenPrecedence(q.peek)

CurPrecedence(q) == TokenPrecedence(q.cur)

\* A diagnostic: the format string used and the tokens formatted into it.
ExpectedMsg(want, got) ==
    [msg |-> "expected next token to be", want |-> want, got |-> got]

NoPrefixMsg(got) ==
    [msg |-> "no prefix parse fn for", want |-> got, got |-> got]

\* peek_error that forgets to push the message
PeekErrorSilent(q, tok) == q

PeekError(q, tok) ==
    [q EXCEPT !.errors = Append(q.errors, ExpectedMsg(tok, q.peek))]

\* expect_peek advancing on a mismatch as well
ExpectPeekAdvancing(q, tok) ==
    IF ~PeekTokenIs(q, tok)
    THEN [p |-> NextToken(PeekError(q, tok)), ok |-> FALSE]
    ELSE [p |-> NextToken(q), ok |-> TRUE]

\* expect_peek: the parser afterwards and the boolean returned
ExpectPeek(q, tok) ==
    IF ~PeekTokenIs(q, tok)
    THEN [p |-> PeekError(q, tok), ok |-> FALSE]
    ELSE [p |-> NextToken(q), ok |-> TRUE]

(***************************************************************************)
(* AST nodes built by the parser.                                          *)
(***************************************************************************)
IdentifierNode(tok, value) == [tok |-> tok, value |-> value]

\* parse_identifier: the expression, or a panic
ParseIdentifier(q) ==
    IF q.cur.type = "Ident"
    THEN [panic |-> FALSE,
          exp |-> [kind |-> "Identifier", tok |-> q.cur, value |-> q.cur.lit]]
    ELSE [panic |-> TRUE, exp |-> None]

\* parse_integer_literal with unwrap_or(0) in place of the match on Err
ParseIntegerLiteralOrZero(q) ==
    IF q.cur.type = "Int"
    THEN LET i == ParseI64(q.cur.lit)
         IN  [panic |-> FALSE,
              exp |-> Some([kind |-> "Integer", tok |-> q.cur,
                            value |-> IF i /= None THEN i[1] ELSE <<"0">>])]
    ELSE [panic |-> TRUE, exp |-> None]

\* parse_integer_literal: Option<Expression>, or a panic
ParseIntegerLiteral(q) ==
    IF q.cur.type = "Int"
    THEN LET i == ParseI64(q.cur.lit)
         IN  [panic |-> FALSE,
              exp |-> IF i /= None
                      THEN Some([kind |-> "Integer", tok |-> q.cur,
                                 value |-> i[1]])
                      ELSE None]
    ELSE [panic |-> TRUE, exp |-> None]

ParseBooleanLiteral(q) ==
    [kind |-> "Boolean", tok |-> q.cur, value |-> (q.cur = True)]

PrefixNode(tok, operator, right) ==
    [kind |-> "Prefix", tok |-> tok, operator |-> operator, right |-> right]

InfixNode(tok, left, operator, right) ==
    [kind |-> "Infix", tok |-> tok, left |-> left, operator |-> operator,
     right |-> right]

LetStatement(tok, name) == [kind |-> "Let", tok |-> tok, name |-> name]

ReturnStatement(tok) == [kind |-> "Return", tok |-> tok]

ExpressionStatement(tok, e) ==
    [kind |-> "Expression", tok |-> tok, expression |-> e]

\* lines 197-204: the match on the operand of a prefix operator
PrefixResult(tok, operator, right) ==
    IF right /= None THEN Some(PrefixNode(tok, operator, right[1])) ELSE None

\* the match of lines 223-231 with the left operand kept in the None arm
InfixResultKeepLeft(tok, left, operator, right) ==
    IF right /= None THEN Some(InfixNode(tok, left, operator, right[1]))
    ELSE Some(left)

\* lines 223-231: the match on the right operand of a binary operator
InfixResult(tok, left, operator, right) ==
    IF right /= None THEN Some(InfixNode(tok, left, operator, right[1]))
    ELSE None

\* the match of lines 44-47 pushing at the front
PushStatementFront(res, stmt) ==
    IF stmt /= None THEN <<stmt[1]>> \o res ELSE res

\* the match of lines 44-47 with a placeholder pushed in the None arm
PushStatementPlaceholder(res, stmt) ==
    IF stmt /= None THEN Append(res, stmt[1])
    ELSE Append(res, [kind |-> "Error"])

\* lines 44-47: the match on the result of parse_statement
PushStatement(res, stmt) ==
    IF stmt /= None THEN Append(res, stmt[1]) ELSE res

\* The operator matches of parse_prefix_expression and parse_infix_expression.
PrefixOperatorOf(tok) ==
    CASE tok = Minus -> Some("Minus")
      [] tok = Bang -> Some("Bang")
      [] OTHER -> None

InfixOperatorOf(tok) ==
    CASE tok = Plus -> Some("Plus")
      [] tok = Minus -> Some("Minus")
      [] tok = Asterisk -> Some("Asterisk")
      [] tok = Slash -> Some("Slash")
      [] tok = Eq -> Some("Eq")
      [] tok = NotEq -> Some("NotEq")
      [] tok = Lt -> Some("Lt")
      [] tok = Gt -> Some("Gt")
      [] OTHER -> None

(***************************************************************************)
(* State.                                                                  *)
(*   p          the Parser: l (the lexer), cur, peek, errors               *)
(*   stack      the call stack, innermost call last; a frame holds the     *)
(*              function, the place in it and its locals                   *)
(*   ret        the value the last completed call returned                 *)
(*   program    None until parse() returns, then Some(Program)             *)
(*   status     "new" after Parser::new, "running" inside parse(),         *)
(*              "returned" after it, "panicked" after a panic!             *)
(* History, read by the properties only:                                   *)
(*   idx        the input positions of cur and peek (Len(input)+1: Eof)    *)
(*   iterations one record per finished iteration of the loop of parse():  *)
(*              the positions of cur when parse_statement was called and   *)
(*              when it returned, what it returned, and the number of      *)
(*              diagnostics before and after                               *)
(*   hits       the defensive branches executed                            *)
(***************************************************************************)
VARIABLES p, stack, ret, program, status, idx, iterations, hits

vars == <<p, stack, ret, program, status, idx, iterations, hits>>

Input == p.l.input

TokenAt(i) == IF i <= Len(Input) THEN Input[i] ELSE Eof

IdxNew(input) == [cur |-> 1, peek |-> IF 1 <= Len(input) THEN 2 ELSE 1]

\* the positions after n calls of next_token
RECURSIVE IdxAfter(_, _)
IdxAfter(i, n) ==
    IF n = 0 THEN i
    ELSE IdxAfter([cur |-> i.peek,
                   peek |-> IF i.peek <= Len(Input) THEN i.peek + 1
                            ELSE i.peek], n - 1)

Top == stack[Len(stack)]

In(fn, pc) == stack /= <<>> /\ Top.fn = fn /\ Top.pc = pc

SetTop(f) == [stack EXCEPT ![Len(stack)] = f]

Pop == SubSeq(stack, 1, Len(stack) - 1)

\* the caller goes on at frame f once the callee has returned
CallFrom(f, callee) == Append(SetTop(f), callee)

ExpressionFrame(precedence) ==
    [fn |-> "parse_expression", pc |-> "entry", precedence |-> precedence,
     left |-> None]

(***************************************************************************)
(* Parser::parse (lines 40-51)                                             *)
(***************************************************************************)
\* parse() is called on the freshly constructed parser
ParseEnter ==
    /\ status = "new"
    /\ status' = "running"
    /\ stack' = <<[fn |-> "parse", pc |-> "loop", res |-> <<>>,
                   first |-> 0, errs |-> 0]>>
    /\ UNCHANGED <<p, ret, program, idx, iterations, hits>>

\* the loop test of line 42, and the call of line 43 or the return of line 50
Parse ==
    /\ In("parse", "loop")
    /\ IF p.cur /= Eof
       THEN /\ stack' = CallFrom([Top EXCEPT !.pc = "stmt",
                                             !.first = idx.cur,
                                             !.errs = Len(p.errors)],
                                 [fn |-> "parse_statement", pc |-> "entry"])
            /\ UNCHANGED <<program, status>>
       ELSE /\ stack' = <<>>
            /\ program' = Some([statements |-> Top.res])
            /\ status' = "returned"
    /\ UNCHANGED <<p, ret, idx, iterations, hits>>

\* lines 44-48: push the statement if there is one, then next_token
ParseStmt ==
    /\ In("parse", "stmt")
    /\ stack' = SetTop([Top EXCEPT
                          !.pc = "loop",
                          !.res = PushStatement(@, ret)])
    /\ p' = NextToken(p)
    /\ idx' = IdxAfter(idx, 1)
    /\ iterations' = Append(iterations,
                            [first |-> Top.first, last |-> idx.cur,
                             stmt |-> ret, errsBefore |-> Top.errs,
                             errsAfter |-> Len(p.errors)])
    /\ UNCHANGED <<ret, program, status, hits>>

(***************************************************************************)
(* Parser::parse_statement (lines 61-67): the callee's result is its own   *)
(***************************************************************************)
ParseStatement ==
    /\ In("parse_statement", "entry")
    /\ stack' = SetTop(
          CASE p.cur = Let ->
                 [fn |-> "parse_let_statement", pc |-> "entry",
                  tok |-> Eof, name |-> None]
            [] p.cur = Return ->
                 [fn |-> "parse_return_statement", pc |-> "entry",
                  tok |-> Eof]
            [] OTHER ->
                 [fn |-> "parse_expression_statement", pc |-> "entry",
                  tok |-> Eof])
    /\ UNCHANGED <<p, ret, program, status, idx, iterations, hits>>

(***************************************************************************)
(* Parser::parse_let_statement (lines 69-93)                               *)
(***************************************************************************)
\* lines 70-85
ParseLetStatement ==
    /\ In("parse_let_statement", "entry")
    /\ IF p.peek.type = "Ident"
       THEN LET q == NextToken(p)
            IN  /\ p' = q
                /\ idx' = IdxAfter(idx, 1)
                /\ stack' = SetTop([Top EXCEPT
                                      !.pc = "expect_assign",
                                      !.tok = p.cur,
                                      !.name = Some(IdentifierNode(q.cur,
                                                                   p.peek.lit))])
                /\ UNCHANGED ret
       ELSE /\ p' = [p EXCEPT !.errors =
                        Append(@, ExpectedMsg(Ident(<<>>), p.peek))]
            /\ stack' = Pop
            /\ ret' = None
            /\ UNCHANGED idx
    /\ UNCHANGED <<program, status, iterations, hits>>

\* lines 86-88
LetExpectAssign ==
    /\ In("parse_let_statement", "expect_assign")
    /\ LET r == ExpectPeek(p, Assign)
       IN  /\ p' = r.p
           /\ IF ~r.ok
              THEN /\ stack' = Pop
                   /\ ret' = None
                   /\ UNCHANGED idx
              ELSE /\ stack' = SetTop([Top EXCEPT !.pc = "scan"])
                   /\ idx' = IdxAfter(idx, 1)
                   /\ UNCHANGED ret
    /\ UNCHANGED <<program, status, iterations, hits>>

\* lines 89-92: one test of the loop condition, then its body or the return
LetScan ==
    /\ In("parse_let_statement", "scan")
    /\ IF ~CurTokenIs(p, Semicolon)
       THEN /\ p' = NextToken(p)
            /\ idx' = IdxAfter(idx, 1)
            /\ UNCHANGED <<stack, ret>>
       ELSE /\ stack' = Pop
            /\ ret' = Some(LetStatement(Top.tok, Top.name[1]))
            /\ UNCHANGED <<p, idx>>
    /\ UNCHANGED <<program, status, iterations, hits>>

(***************************************************************************)
(* Parser::parse_return_statement (lines 95-102)                           *)
(***************************************************************************)
\* lines 96-97
ParseReturnStatement ==
    /\ In("parse_return_statement", "entry")
    /\ p' = NextToken(p)
    /\ idx' = IdxAfter(idx, 1)
    /\ stack' = SetTop([Top EXCEPT !.pc = "scan", !.tok = p.cur])
    /\ UNCHANGED <<ret, program, status, iterations, hits>>

\* lines 98-101
ReturnScan ==
    /\ In("parse_return_statement", "scan")
    /\ IF ~CurTokenIs(p, Semicolon)
       THEN /\ p' = NextToken(p)
            /\ idx' = IdxAfter(idx, 1)
            /\ UNCHANGED <<stack, ret>>
       ELSE /\ stack' = Pop
            /\ ret' = Some(ReturnStatement(Top.tok))
            /\ UNCHANGED <<p, idx>>
    /\ UNCHANGED <<program, status, iterations, hits>>

(***************************************************************************)
(* Parser::parse_expression_statement (lines 104-119)                      *)
(***************************************************************************)
\* lines 105-106
ParseExpressionStatement ==
    /\ In("parse_expression_statement", "entry")
    /\ stack' = CallFrom([Top EXCEPT !.pc = "after", !.tok = p.cur],
                         ExpressionFrame(Lowest))
    /\ UNCHANGED <<p, ret, program, status, idx, iterations, hits>>

\* lines 107-118 with the semicolon demanded by expect_peek
ExpressionStatementAfterExpectSemicolon ==
    /\ In("parse_expression_statement", "after")
    /\ IF ret /= None
       THEN LET r == ExpectPeek(p, Semicolon)
            IN  /\ p' = r.p
                /\ idx' = IF r.ok THEN IdxAfter(idx, 1) ELSE idx
                /\ ret' = IF r.ok
                          THEN Some(ExpressionStatement(Top.tok, ret[1]))
                          ELSE None
       ELSE /\ ret' = None
            /\ UNCHANGED <<p, idx>>
    /\ stack' = Pop
    /\ UNCHANGED <<program, status, iterations, hits>>

\* lines 107-118
ExpressionStatementAfter ==
    /\ In("parse_expression_statement", "after")
    /\ IF ret /= None
       THEN /\ ret' = Some(ExpressionStatement(Top.tok, ret[1]))
            /\ IF PeekTokenIs(p, Semicolon)
               THEN p' = NextToken(p) /\ idx' = IdxAfter(idx, 1)
               ELSE UNCHANGED <<p, idx>>
       ELSE /\ ret' = None
            /\ UNCHANGED <<p, idx>>
    /\ stack' = Pop
    /\ UNCHANGED <<program, status, iterations, hits>>

(***************************************************************************)
(* Parser::parse_expression (lines 121-156)                                *)
(***************************************************************************)
\* a panic! unwinds the whole stack; parse() returns nothing
Panic(branch) ==
    /\ status' = "panicked"
    /\ stack' = <<>>
    /\ hits' = hits \cup {branch}
    /\ UNCHANGED <<p, ret, program, idx, iterations>>

\* a match arm of lines 122-133 that calls no parser function: left is set
SetLeft(left, q) ==
    /\ stack' = SetTop([Top EXCEPT !.pc = "loop", !.left = left])
    /\ p' = q
    /\ UNCHANGED <<ret, program, status, idx, iterations, hits>>

\* a match arm of lines 122-133 that calls a recursive parse function
CallForLeft(fn) ==
    /\ stack' = CallFrom([Top EXCEPT !.pc = "left"],
                         [fn |-> fn, pc |-> "entry", tok |-> Eof,
                          operator |-> None])
    /\ UNCHANGED <<p, ret, program, status, idx, iterations, hits>>

\* lines 122-133: the dispatch on the current token
ParseExpression ==
    /\ In("parse_expression", "entry")
    /\ CASE p.cur.type = "Ident" ->
              LET r == ParseIdentifier(p)
              IN  IF r.panic THEN Panic("parse_identifier: unreachable")
                  ELSE SetLeft(Some(r.exp), p)
         [] p.cur.type = "Int" ->
              LET r == ParseIntegerLiteral(p)
              IN  IF r.panic THEN Panic("parse_integer_literal: unreachable")
                  ELSE SetLeft(r.exp, p)
         [] p.cur = Bang \/ p.cur = Minus ->
              CallForLeft("parse_prefix_expression")
         [] p.cur = True \/ p.cur = False ->
              SetLeft(Some(ParseBooleanLiteral(p)), p)
         [] p.cur = LParen ->
              CallForLeft("parse_grouped_expression")
         [] OTHER ->
              SetLeft(None, [p EXCEPT !.errors =
                                       Append(@, NoPrefixMsg(p.cur))])

\* the value of the match of lines 122-133, once the called function returned
ExpressionLeft ==
    /\ In("parse_expression", "left")
    /\ stack' = SetTop([Top EXCEPT !.pc = "loop", !.left = ret])
    /\ UNCHANGED <<p, ret, program, status, idx, iterations, hits>>

\* lines 135-155: one test of the loop condition, then the loop body up to
\* the call of parse_infix_expression, or a return
ExpressionLoop ==
    /\ In("parse_expression", "loop")
    /\ IF ~PeekTokenIs(p, Semicolon) /\ Top.precedence < PeekPrecedence(p)
       THEN IF p.peek \in InfixTokens
            THEN /\ p' = NextToken(p)
                 /\ idx' = IdxAfter(idx, 1)
                 /\ IF Top.left = None
                    THEN /\ stack' = Pop
                         /\ ret' = None
                    ELSE /\ stack' = CallFrom(
                                [Top EXCEPT !.pc = "infix"],
                                [fn |-> "parse_infix_expression",
                                 pc |-> "entry", left |-> Top.left[1],
                                 tok |-> Eof, operator |-> None])
                         /\ UNCHANGED ret
                 /\ UNCHANGED hits
            ELSE /\ stack' = Pop
                 /\ ret' = Top.left
                 /\ hits' = hits \cup {"parse_expression: _ => return left"}
                 /\ UNCHANGED <<p, idx>>
       ELSE /\ stack' = Pop
            /\ ret' = Top.left
            /\ UNCHANGED <<p, idx, hits>>
    /\ UNCHANGED <<program, status, iterations>>

\* line 150: left = the result of parse_infix_expression
ExpressionInfix ==
    /\ In("parse_expression", "infix")
    /\ stack' = SetTop([Top EXCEPT !.pc = "loop", !.left = ret])
    /\ UNCHANGED <<p, ret, program, status, idx, iterations, hits>>

(***************************************************************************)
(* Parser::parse_prefix_expression (lines 188-205)                         *)
(***************************************************************************)
\* lines 189-196
ParsePrefixExpression ==
    /\ In("parse_prefix_expression", "entry")
    /\ LET operator == PrefixOperatorOf(p.cur)
       IN  IF operator = None
           THEN /\ stack' = Pop
                /\ ret' = None
                /\ hits' = hits \cup
                             {"parse_prefix_expression: _ => return None"}
                /\ UNCHANGED <<p, idx>>
           ELSE /\ p' = NextToken(p)
                /\ idx' = IdxAfter(idx, 1)
                /\ stack' = CallFrom([Top EXCEPT !.pc = "after",
                                                 !.tok = p.cur,
                                                 !.operator = operator],
                                     ExpressionFrame(Prefix))
                /\ UNCHANGED <<ret, hits>>
    /\ UNCHANGED <<program, status, iterations>>

\* lines 197-204
PrefixAfter ==
    /\ In("parse_prefix_expression", "after")
    /\ stack' = Pop
    /\ ret' = PrefixResult(Top.tok, Top.operator[1], ret)
    /\ UNCHANGED <<p, program, status, idx, iterations, hits>>

(***************************************************************************)
(* Parser::parse_infix_expression (lines 207-232)                          *)
(***************************************************************************)
\* lines 208-222
ParseInfixExpression ==
    /\ In("parse_infix_expression", "entry")
    /\ LET operator == InfixOperatorOf(p.cur)
           precedence == CurPrecedence(p)
       IN  IF operator = None
           THEN /\ stack' = Pop
                /\ ret' = None
                /\ hits' = hits \cup
                             {"parse_infix_expression: _ => return None"}
                /\ UNCHANGED <<p, idx>>
           ELSE /\ p' = NextToken(p)
                /\ idx' = IdxAfter(idx, 1)
                /\ stack' = CallFrom([Top EXCEPT !.pc = "after",
                                                 !.tok = p.cur,
                                                 !.operator = operator],
                                     ExpressionFrame(precedence))
                /\ UNCHANGED <<ret, hits>>
    /\ UNCHANGED <<program, status, iterations>>

\* lines 223-231
InfixAfter ==
    /\ In("parse_infix_expression", "after")
    /\ stack' = Pop
    /\ ret' = InfixResult(Top.tok, Top.left, Top.operator[1], ret)
    /\ UNCHANGED <<p, program, status, idx, iterations, hits>>

(***************************************************************************)
(* Parser::parse_grouped_expression (lines 234-241)                        *)
(***************************************************************************)
\* lines 235-236
ParseGroupedExpression ==
    /\ In("parse_grouped_expression", "entry")
    /\ p' = NextToken(p)
    /\ idx' = IdxAfter(idx, 1)
    /\ stack' = CallFrom([Top EXCEPT !.pc = "after"], ExpressionFrame(Lowest))
    /\ UNCHANGED <<ret, program, status, iterations, hits>>

\* lines 237-240
GroupedAfter ==
    /\ In("parse_grouped_expression", "after")
    /\ LET exp == ret
           r == ExpectPeek(p, RParen)
       IN  /\ p' = r.p
           /\ stack' = Pop
           /\ IF ~r.ok
              THEN ret' = None /\ UNCHANGED idx
              ELSE ret' = exp /\ idx' = IdxAfter(idx, 1)
    /\ UNCHANGED <<program, status, iterations, hits>>

(***************************************************************************)
(* The inputs.                                                             *)
(***************************************************************************)
idA == Ident(<<"a">>)
idB == Ident(<<"b">>)
idC == Ident(<<"c">>)
idD == Ident(<<"d">>)
idE == Ident(<<"e">>)
idF == Ident(<<"f">>)
n1 == Int(<<"1">>)
n2 == Int(<<"2">>)
n3 == Int(<<"3">>)
n4 == Int(<<"4">>)
n5 == Int(<<"5">>)
\* i64::MAX and i64::MAX + 1, and a numeral with leading zeros
nMax == Int(I64Max)
nBig == Int(<<"9", "2", "2", "3", "3", "7", "2", "0", "3", "6",
              "8", "5", "4", "7", "7", "5", "8", "0", "8">>)
n007 == Int(<<"0", "0", "7">>)
\* twenty digits
nHuge == Int(<<"1", "0", "0", "0", "0", "0", "0", "0", "0", "0",
               "0", "0", "0", "0", "0", "0", "0", "0", "0", "0">>)

\* Every token sequence of at most MaxLen tokens over Alphabet.
MaxLen == 3

Alphabet ==
    {idA, n5, nBig, Let, Return, Assign, Bang, Minus, Asterisk, LParen,
     RParen, Semicolon}

Seqs(S, n) == UNION {[1..k -> S] : k \in 0..n}

\* the concatenation of the sequences of a sequence of sequences
RECURSIVE Flatten(_)
Flatten(ss) == IF ss = <<>> THEN <<>> ELSE Head(ss) \o Flatten(Tail(ss))

\* x1 op x2 op ... : at most MaxOps binary operators between identifiers
MaxOps == 3

Names == <<idA, idB, idC, idD, idE, idF>>

OpChains ==
    {<<Names[1]>> \o Flatten([i \in 1..Len(ops) |-> <<ops[i], Names[i + 1]>>]) :
        ops \in UNION {[1..k -> InfixTokens] : k \in 0..MaxOps}}

\* at most MaxFormOps binary operators between operands of several forms
MaxFormOps == 1

OperandForms ==
    {<<n5>>, <<True>>, <<Minus, idA>>, <<Bang, False>>,
     <<LParen, idA, Plus, idB, RParen>>}

FormChains ==
    UNION {{Flatten([i \in 1..(2 * k + 1) |->
                        IF i % 2 = 1 THEN xs[(i + 1) \div 2]
                        ELSE <<ops[i \div 2]>>]) :
               xs \in [1..(k + 1) -> OperandForms],
               ops \in [1..k -> InfixTokens]} : k \in 0..MaxFormOps}

\* at most MaxStmts statements, each of one of these forms
MaxStmts == 2

StatementForms ==
    {<<Let, idA, Assign, n5, Semicolon>>,
     <<Let, idB, Assign, idA, Plus, n5, Semicolon>>,
     <<Let, idC, Assign, Semicolon>>,
     <<Let, idA, n5, Semicolon>>,
     <<Let, Assign, n5, Semicolon>>,
     <<Return, n5, Semicolon>>,
     <<Return, Semicolon>>,
     <<Return, Let, idA, Semicolon>>,
     <<idA, Plus, idB, Semicolon>>,
     <<n1, Plus, RParen, n2, Semicolon>>,
     <<nBig, Semicolon>>,
     <<n007>>}

StatementLists ==
    {Flatten(ss) : ss \in Seqs(StatementForms, MaxStmts)}

\* The inputs of the tests of parser.rs (lines 384-778) and of section 8 of
\* the specification, as the lexer hands them out.
TestInputs ==
    {<<Let, Ident(<<"x">>), Assign, n5, Semicolon,
       Let, Ident(<<"y">>), Assign, Int(<<"1", "0">>), Semicolon,
       Let, Ident(<<"f", "o", "o", "b", "a", "r">>), Assign,
       Int(<<"8", "3", "8", "3", "8", "3">>), Semicolon>>,
     <<Return, n5, Semicolon, Return, Int(<<"1", "0">>), Semicolon,
       Return, Int(<<"9", "9", "3", "3", "2", "2">>), Semicolon>>,
     <<Ident(<<"f", "o", "o", "b", "a", "r">>)>>,
     <<n5, Semicolon>>,
     <<Bang, n5, Semicolon>>,
     <<Minus, Int(<<"1", "5">>), Semicolon>>,
     <<Bang, True, Semicolon>>,
     <<Bang, False, Semicolon>>,
     <<True, Eq, True>>,
     <<True, NotEq, False>>,
     <<False, Eq, False>>,
     <<Minus, idA, Asterisk, idB>>,
     <<Bang, Minus, idA>>,
     <<idA, Plus, idB, Asterisk, idC, Plus, idD, Slash, idE, Minus, idF>>,
     <<n3, Plus, n4, Semicolon, Minus, n5, Asterisk, n5>>,
     <<n5, Gt, n4, Eq, n3, Lt, n4>>,
     <<n5, Lt, n4, NotEq, n3, Gt, n4>>,
     <<n3, Plus, n4, Asterisk, n5, Eq, n3, Asterisk, n1, Plus, n4,
       Asterisk, n5>>,
     <<True>>,
     <<False>>,
     <<n3, Gt, n5, Eq, False>>,
     <<n3, Lt, n5, Eq, True>>,
     <<n1, Plus, LParen, n2, Plus, n3, RParen, Plus, n4>>,
     <<LParen, n5, Plus, n5, RParen, Asterisk, n2>>,
     <<n2, Slash, LParen, n5, Plus, n5, RParen>>,
     <<Minus, LParen, n5, Plus, n5, RParen>>,
     <<Bang, LParen, True, Eq, True, RParen>>,
     <<Let, Ident(<<"x">>), n5, Semicolon>>,
     <<nMax>>,
     <<nHuge, Plus, n1>>,
     <<Minus, nBig, Semicolon, n1>>}

\* two expressions one after the other, with no, one or two semicolons
\* between them
JuxtaposedForms ==
    OperandForms \cup {<<idA, Plus, idB>>, <<idA, Asterisk, idB, Plus, idC>>}

Juxtaposed ==
    {x \o sep \o y : x \in JuxtaposedForms, y \in JuxtaposedForms,
                     sep \in {<<>>, <<Semicolon>>, <<Semicolon, Semicolon>>}}

Inputs ==
    Seqs(Alphabet, MaxLen) \cup OpChains \cup FormChains
        \cup StatementLists \cup TestInputs \cup Juxtaposed

Init ==
    /\ \E input \in Inputs : p = New(Lexer(input))
    /\ idx = IdxNew(Input)
    /\ stack = <<>>
    /\ ret = None
    /\ program = None
    /\ status = "new"
    /\ iterations = <<>>
    /\ hits = {}

Next ==
    \/ ParseEnter
    \/ Parse
    \/ ParseStmt
    \/ ParseStatement
    \/ ParseLetStatement
    \/ LetExpectAssign
    \/ LetScan
    \/ ParseReturnStatement
    \/ ReturnScan
    \/ ParseExpressionStatement
    \/ ExpressionStatementAfter
    \/ ParseExpression
    \/ ExpressionLeft
    \/ ExpressionLoop
    \/ ExpressionInfix
    \/ ParsePrefixExpression
    \/ PrefixAfter
    \/ ParseInfixExpression
    \/ InfixAfter
    \/ ParseGroupedExpression
    \/ GroupedAfter

Spec == Init /\ [][Next]_vars

\* parse() runs to its end once called: the program is sequential
FairSpec == Spec /\ WF_vars(Next)

GhostOK == p.cur = TokenAt(idx.cur) /\ p.peek = TokenAt(idx.peek)

(***************************************************************************)
(* Properties.                                                             *)
(***************************************************************************)
Returned == status = "returned"

\* the scanning loop of a let or return statement stands on end-of-input
ScanAtEof ==
    /\ stack /= <<>>
    /\ Top.fn \in {"parse_let_statement", "parse_return_statement"}
    /\ Top.pc = "scan"
    /\ p.cur = Eof

\* C1: on every finite token sequence parse() terminates, also when a let or
\* a return statement is followed by no semicolon before end-of-input.
C1_ParseTerminates == <>Returned

\* What does hold: parse() returns unless the scanning loop of a let or
\* return statement reaches end-of-input, where it spins for ever.
C1_TerminatesUnlessScanAtEof == <>(Returned \/ ScanAtEof)

(***************************************************************************)
(* The canonical tree of a well-formed expression, by the grammar and the  *)
(* precedence table of the specification (section 4.3): an expression is   *)
(* split at the rightmost of its loosest-binding binary operators outside  *)
(* all parentheses; without one it is a prefix operator and its operand, a *)
(* parenthesized expression, or a single identifier or literal.            *)
(***************************************************************************)
\* equality < relational < additive < multiplicative
BindingLevel(t) ==
    CASE t \in {Eq, NotEq} -> 1
      [] t \in {Lt, Gt} -> 2
      [] t \in {Plus, Minus} -> 3
      [] t \in {Asterisk, Slash} -> 4

OperandEnd(t) == t.type \in {"Ident", "Int", "True", "False", "RParen"}

Count(ts, i, tok) == Cardinality({j \in 1..(i - 1) : ts[j] = tok})

\* ts[i] is a binary operator outside all parentheses
BinaryAt(ts, i) ==
    /\ 1 < i
    /\ i < Len(ts)
    /\ ts[i] \in {Eq, NotEq, Lt, Gt, Plus, Minus, Asterisk, Slash}
    /\ OperandEnd(ts[i - 1])
    /\ Count(ts, i, LParen) = Count(ts, i, RParen)

RECURSIVE Canon(_)
Canon(ts) ==
    LET B == {i \in 1..Len(ts) : BinaryAt(ts, i)}
    IN  IF ts = <<>> THEN None
        ELSE IF B /= {}
        THEN LET i == CHOOSE i \in B : \A j \in B :
                         \/ BindingLevel(ts[i]) < BindingLevel(ts[j])
                         \/ /\ BindingLevel(ts[i]) = BindingLevel(ts[j])
                            /\ j <= i
                 l == Canon(SubSeq(ts, 1, i - 1))
                 r == Canon(SubSeq(ts, i + 1, Len(ts)))
             IN  IF l = None \/ r = None THEN None
                 ELSE Some([kind |-> "Infix", tok |-> ts[i], left |-> l[1],
                            operator |-> ts[i].type, right |-> r[1]])
        ELSE IF ts[1] \in {Bang, Minus}
        THEN LET r == Canon(Tail(ts))
             IN  IF r = None THEN None
                 ELSE Some([kind |-> "Prefix", tok |-> ts[1],
                            operator |-> ts[1].type, right |-> r[1]])
        ELSE IF ts[1] = LParen /\ ts[Len(ts)] = RParen
        THEN Canon(SubSeq(ts, 2, Len(ts) - 1))
        ELSE IF Len(ts) = 1 /\ ts[1].type = "Ident"
        THEN Some([kind |-> "Identifier", tok |-> ts[1], value |-> ts[1].lit])
        ELSE IF Len(ts) = 1 /\ ts[1].type = "Int" /\ ParseI64(ts[1].lit) /= None
        THEN Some([kind |-> "Integer", tok |-> ts[1],
                   value |-> ParseI64(ts[1].lit)[1]])
        ELSE IF Len(ts) = 1 /\ ts[1] \in {True, False}
        THEN Some([kind |-> "Boolean", tok |-> ts[1], value |-> ts[1] = True])
        ELSE None

\* C2: for a well-formed single expression, the tree parse_expression(Lowest)
\* returns to parse_expression_statement is the canonical tree, the whole
\* input is consumed, and parse() returns that one expression statement and
\* no diagnostic.
C2_CanonicalTree ==
    (In("parse_expression_statement", "after") \/ Returned) =>
        LET t == Canon(Input)
        IN  t /= None =>
              /\ In("parse_expression_statement", "after") =>
                    ret = t /\ idx.cur = Len(Input)
              /\ Returned =>
                    /\ program = Some([statements |->
                                         <<ExpressionStatement(Input[1], t[1])>>])
                    /\ p.errors = <<>>

\* a well-formed expression was parsed whose tree has a binary operator on
\* both sides of its root: precedence or parentheses decided its shape
C2_Witness ==
    /\ Returned
    /\ Canon(Input) /= None
    /\ LET x == program[1].statements[1].expression
       IN  /\ x.kind = "Infix"
           /\ x.left.kind = "Infix"
           /\ x.right.kind = "Infix"

\* some call of parse_statement returned no statement
Dropped == \E i \in 1..Len(iterations) : iterations[i].stmt = None

\* C3: whenever parse() dropped a statement, the diagnostics list is not
\* empty when parse() returns.
C3_DroppedImpliesDiagnostic == (Returned /\ Dropped) => p.errors /= <<>>

\* What does hold: a statement is dropped without a diagnostic only when the
\* input holds an integer token that does not fit an i64; and `let x 5;`
\* leaves a diagnostic and a Program.
C3_SilentOnlyForIntegers ==
    /\ (Returned /\ Dropped /\ p.errors = <<>>) =>
          \E i \in 1..Len(Input) :
              Input[i].type = "Int" /\ ParseI64(Input[i].lit) = None
    /\ (Returned /\ Input = <<Let, Ident(<<"x">>), n5, Semicolon>>) =>
          p.errors /= <<>> /\ program /= None

(***************************************************************************)
(* Diagnostics.                                                            *)
(***************************************************************************)
\* the three structural mismatches and the missing parse rule, as the state
\* in which the routine is about to meet them
MismatchIdent == In("parse_let_statement", "entry") /\ p.peek.type /= "Ident"

MismatchAssign ==
    In("parse_let_statement", "expect_assign") /\ p.peek /= Assign

MismatchRParen == In("parse_grouped_expression", "after") /\ p.peek /= RParen

NoParseRule ==
    /\ In("parse_expression", "entry")
    /\ p.cur.type \notin
          {"Ident", "Int", "True", "False", "Bang", "Minus", "LParen"}

\* the step appends exactly the message m and touches nothing else of p
AppendsOnly(m) == p' = [p EXCEPT !.errors = Append(@, m)]

\* the step returns from the innermost call with no result
ReturnsNone == stack' = Pop /\ ret' = None

\* C4: each structural mismatch and each missing parse rule appends exactly
\* one message and makes its routine return no result (parse_expression in
\* its next step, with no further message); nothing else appends a message;
\* parse() goes on with its loop after every statement, produced or not, and
\* returns only on end-of-input.
C4_MismatchAppendsOneAndGoesOn ==
    [][/\ MismatchIdent =>
             AppendsOnly(ExpectedMsg(Ident(<<>>), p.peek)) /\ ReturnsNone
       /\ MismatchAssign =>
             AppendsOnly(ExpectedMsg(Assign, p.peek)) /\ ReturnsNone
       /\ MismatchRParen =>
             AppendsOnly(ExpectedMsg(RParen, p.peek)) /\ ReturnsNone
       /\ NoParseRule =>
             /\ AppendsOnly(NoPrefixMsg(p.cur))
             /\ In("parse_expression", "loop")'
             /\ Top'.left = None
       /\ (In("parse_expression", "loop") /\ Top.left = None) =>
             ReturnsNone /\ p'.errors = p.errors
       /\ p'.errors /= p.errors =>
             MismatchIdent \/ MismatchAssign \/ MismatchRParen \/ NoParseRule
       /\ In("parse", "stmt") =>
             In("parse", "loop")' /\ idx'.cur = idx.peek
       /\ Returned' => p.cur = Eof]_vars

\* parse() returned after a first statement that was dropped with exactly one
\* diagnostic and a later statement that was produced
C4_Witness ==
    /\ Returned
    /\ Len(iterations) >= 2
    /\ iterations[1].stmt = None
    /\ iterations[1].errsAfter = iterations[1].errsBefore + 1
    /\ iterations[Len(iterations)].stmt /= None

\* C5: on an integer token whose text does not fit a signed 64-bit integer
\* the integer rule yields no expression and leaves the parser, its
\* diagnostics included, exactly as it was.
TooBig == {nBig, nHuge}

C5_SilentIntegerFailure ==
    [][(In("parse_expression", "entry") /\ p.cur \in TooBig) =>
          /\ p' = p
          /\ In("parse_expression", "loop")'
          /\ Top'.left = None]_vars

C5_Witness ==
    /\ In("parse_expression", "loop")
    /\ Top.left = None
    /\ p.cur \in TooBig
    /\ p.errors = <<>>

(***************************************************************************)
(* Let and return statements.                                              *)
(***************************************************************************)
\* the positions at which the semicolon-terminated statements of ts start
Starts(ts) ==
    {1} \cup {i + 1 : i \in {j \in 1..(Len(ts) - 1) : ts[j] = Semicolon}}

\* the k-th of them
StartOf(ts, k) ==
    CHOOSE i \in Starts(ts) : Cardinality({j \in Starts(ts) : j < i}) = k - 1

\* ts is `let <ident> = <tokens without ;> ;` one or more times
IsLetList(ts) ==
    /\ ts /= <<>>
    /\ ts[Len(ts)] = Semicolon
    /\ \A i \in Starts(ts) :
          /\ i + 2 <= Len(ts)
          /\ ts[i] = Let
          /\ ts[i + 1].type = "Ident"
          /\ ts[i + 2] = Assign

\* ts is `return <tokens without ;> ;` one or more times
IsReturnList(ts) ==
    /\ ts /= <<>>
    /\ ts[Len(ts)] = Semicolon
    /\ \A i \in Starts(ts) : ts[i] = Return

\* parse_statement was entered on `let <ident> =`
LetHead(i) ==
    /\ TokenAt(i) = Let
    /\ TokenAt(i + 1).type = "Ident"
    /\ TokenAt(i + 2) = Assign

\* What holds of parse_let_statement: whenever it returns from `let <ident>
\* =`, it returns the Let statement of that identifier, no diagnostic, and
\* the current token is the first semicolon after the `=`; it calls no other
\* parse function; and N statements `let <ident> = ... ;` give N Let
\* statements in source order and no diagnostic.
C6_WhenLetReturns ==
    /\ \A k \in 1..Len(iterations) :
          LET r == iterations[k]
          IN  LetHead(r.first) =>
                /\ r.stmt = Some(LetStatement(Let,
                               IdentifierNode(TokenAt(r.first + 1),
                                              TokenAt(r.first + 1).lit)))
                /\ r.errsAfter = r.errsBefore
                /\ r.last >= r.first + 3
                /\ TokenAt(r.last) = Semicolon
                /\ \A j \in (r.first + 3)..(r.last - 1) :
                      TokenAt(j) /= Semicolon
    /\ \A i \in 1..Len(stack) :
          stack[i].fn = "parse_let_statement" => i = Len(stack)
    /\ (Returned /\ IsLetList(Input)) =>
          /\ p.errors = <<>>
          /\ program = Some([statements |->
                [k \in 1..Cardinality(Starts(Input)) |->
                    LET i == StartOf(Input, k)
                    IN  LetStatement(Let, IdentifierNode(Input[i + 1],
                                                         Input[i + 1].lit))]])

\* C6: entered on `let <ident> =`, parse_let_statement returns the Let
\* statement of that identifier with no diagnostic and the current token on
\* the first semicolon after the `=`, whatever tokens follow the `=`.
C6_LetAlwaysReturned ==
    /\ []C6_WhenLetReturns
    /\ (In("parse_let_statement", "entry") /\ LetHead(idx.cur))
          ~> In("parse", "stmt")

\* What holds of parse_return_statement: whenever it returns, it returns a
\* Return statement, no diagnostic, and the current token is the first
\* semicolon after `return`; N statements `return ... ;` give N Return
\* statements.
C7_WhenReturnReturns ==
    /\ \A k \in 1..Len(iterations) :
          LET r == iterations[k]
          IN  TokenAt(r.first) = Return =>
                /\ r.stmt = Some(ReturnStatement(Return))
                /\ r.errsAfter = r.errsBefore
                /\ r.last >= r.first + 1
                /\ TokenAt(r.last) = Semicolon
                /\ \A j \in (r.first + 1)..(r.last - 1) :
                      TokenAt(j) /= Semicolon
    /\ (Returned /\ IsReturnList(Input)) =>
          /\ p.errors = <<>>
          /\ program = Some([statements |->
                [k \in 1..Cardinality(Starts(Input)) |->
                    ReturnStatement(Return)]])

\* C7: entered on `return`, parse_return_statement produces a Return
\* statement for every following token sequence, with no diagnostic and the
\* current token on a semicolon.
C7_ReturnAlwaysProduced ==
    /\ []C7_WhenReturnReturns
    /\ In("parse_return_statement", "entry") ~> In("parse", "stmt")

(***************************************************************************)
(* The loop of parse().                                                    *)
(***************************************************************************)
RECURSIVE Produced(_)
\* the statements the calls of parse_statement returned, in call order
Produced(its) ==
    IF its = <<>> THEN <<>>
    ELSE LET r == its[Len(its)]
             before == Produced(SubSeq(its, 1, Len(its) - 1))
         IN  IF r.stmt /= None THEN Append(before, r.stmt[1]) ELSE before

\* the statements parse() has collected so far, or has returned
Collected ==
    IF Returned THEN program[1].statements
    ELSE IF stack /= <<>> THEN stack[1].res
    ELSE <<>>

ExampleTwoStatements == <<n3, Plus, n4, Semicolon, Minus, n5, Asterisk, n5>>

\* C8: parse() calls parse_statement while the current token is not
\* end-of-input and returns the Program once it is; after each call it
\* pushes the statement if there is one and advances exactly one token
\* whether or not there is one; the statements are those the calls returned,
\* in call order, and the calls start at strictly increasing positions;
\* `3 + 4; -5 * 5` gives (3 + 4) and then ((-5) * 5).
C8_LoopKeepsSourceOrder ==
    [][/\ In("parse", "loop") =>
             IF p.cur /= Eof
             THEN /\ In("parse_statement", "entry")'
                  /\ UNCHANGED <<p, idx, iterations>>
                  /\ ~Returned'
             ELSE /\ Returned'
                  /\ program' = Some([statements |-> Top.res])
       /\ In("parse", "stmt") =>
             /\ In("parse", "loop")'
             /\ idx'.cur = idx.peek
             /\ p'.cur = p.peek
             /\ p'.errors = p.errors
             /\ Len(iterations') = Len(iterations) + 1
             /\ Top'.res = IF ret /= None THEN Append(Top.res, ret[1])
                           ELSE Top.res
       /\ ~In("parse", "stmt") =>
             /\ iterations' = iterations
             /\ (stack /= <<>> /\ stack' /= <<>>) => stack'[1].res = stack[1].res
       /\ Collected' = Produced(iterations')
       /\ \A i, j \in 1..Len(iterations') :
             i < j => /\ iterations'[i].first <= iterations'[i].last
                      /\ iterations'[i].last < iterations'[j].first
       /\ (Returned' /\ Input = ExampleTwoStatements) =>
             /\ p'.errors = <<>>
             /\ Len(Collected') = 2
             /\ LET x == Collected'[1].expression
                    y == Collected'[2].expression
                IN  /\ x.kind = "Infix" /\ x.operator = "Plus"
                    /\ x.left.tok = n3 /\ x.right.tok = n4
                    /\ y.kind = "Infix" /\ y.operator = "Asterisk"
                    /\ y.left.kind = "Prefix" /\ y.left.operator = "Minus"
                    /\ y.left.right.tok = n5 /\ y.right.tok = n5
      ]_vars

\* parse() returned both statements of `3 + 4; -5 * 5`
C8_Witness ==
    /\ Returned
    /\ Input = ExampleTwoStatements
    /\ Len(iterations) = 2
    /\ Len(program[1].statements) = 2

(***************************************************************************)
(* Failures inside expressions.                                            *)
(***************************************************************************)
RECURSIVE Complete(_)
\* every operand of the expression is there
Complete(e) ==
    CASE e.kind = "Prefix" -> e.right /= None /\ Complete(e.right)
      [] e.kind = "Infix" ->
            /\ e.left /= None /\ Complete(e.left)
            /\ e.right /= None /\ Complete(e.right)
      [] OTHER -> e.kind \in {"Identifier", "Integer", "Boolean"}

\* C9: an absent sub-expression makes the enclosing prefix, infix, grouped
\* or outermost expression absent, makes parse_expression_statement return
\* no statement, and makes parse() push nothing; every expression statement
\* parse() has collected holds a complete tree.
C9_AbsenceReachesTheStatement ==
    [][/\ ((In("parse_expression", "left") \/ In("parse_expression", "infix"))
           /\ ret = None) =>
             /\ Top'.fn = "parse_expression" /\ Top'.pc = "loop"
             /\ Top'.left = None
       /\ (In("parse_expression", "loop") /\ Top.left = None) => ReturnsNone
       /\ (In("parse_prefix_expression", "after") /\ ret = None) =>
             ReturnsNone
       /\ (In("parse_infix_expression", "after") /\ ret = None) =>
             ReturnsNone
       /\ (In("parse_grouped_expression", "after") /\ ret = None) =>
             ReturnsNone
       /\ (In("parse_expression_statement", "after") /\ ret = None) =>
             ReturnsNone
       /\ (In("parse", "stmt") /\ ret = None) =>
             /\ Top'.res = Top.res
             /\ p'.errors = p.errors
       /\ \A i \in 1..Len(Collected') :
             Collected'[i].kind = "Expression" =>
                Complete(Collected'[i].expression)
      ]_vars

\* the right operand of `*` is absent inside the parentheses of `( a *`, and
\* the call of parse_statement has returned no statement to parse(); the
\* diagnostics are the missing parse rule and the missing `)`
C9_Witness ==
    /\ In("parse", "stmt")
    /\ Input = <<LParen, idA, Asterisk>>
    /\ ret = None
    /\ Top.res = <<>>
    /\ p.errors = <<NoPrefixMsg(Eof), ExpectedMsg(RParen, Eof)>>

(***************************************************************************)
(* What follows a dropped statement.                                       *)
(***************************************************************************)
\* the end of the source statement that begins at position i: its
\* semicolon, or the last token when there is none
SourceEnd(i) ==
    IF \E j \in i..Len(Input) : Input[j] = Semicolon
    THEN CHOOSE j \in i..Len(Input) :
            /\ Input[j] = Semicolon
            /\ \A k \in i..(j - 1) : Input[k] /= Semicolon
    ELSE Len(Input)

\* C10: when a call of parse_statement returns no statement, the Program
\* holds no statement built from any token of the source statement it began
\* in, up to that statement's semicolon.
C10_WholeSourceStatementOmitted ==
    Returned =>
       \A i, j \in 1..Len(iterations) :
          (iterations[i].stmt = None /\ iterations[j].stmt /= None) =>
             \/ iterations[j].last < iterations[i].first
             \/ iterations[j].first > SourceEnd(iterations[i].first)

\* C10 as the code has it: when a call of parse_statement returns no
\* statement, nothing is pushed for it and the Program holds no statement
\* built from the tokens that call consumed; the loop goes on at the next
\* token, so the tokens the call left before the semicolon begin further
\* calls, whose statements the Program does hold; the call leaves a
\* diagnostic unless it consumed an integer that does not fit an i64.
C10_ConsumedTokensOmitted ==
    /\ Collected = Produced(iterations)
    /\ \A i, j \in 1..Len(iterations) :
          (iterations[i].stmt = None /\ iterations[j].stmt /= None) =>
             \/ iterations[j].last < iterations[i].first
             \/ iterations[j].first > iterations[i].last
    /\ \A i \in 1..Len(iterations) :
          (iterations[i].stmt = None /\ i < Len(iterations)) =>
             iterations[i + 1].first = iterations[i].last + 1
    /\ \A i \in 1..Len(iterations) :
          (/\ iterations[i].stmt = None
           /\ iterations[i].errsAfter = iterations[i].errsBefore) =>
             \E k \in (iterations[i].first)..(iterations[i].last) :
                TokenAt(k) \in TooBig

\* a call returned no statement and the Program holds a statement that
\* begins at a token that call left before the semicolon
C10_Witness ==
    /\ Returned
    /\ \E i, j \in 1..Len(iterations) :
          /\ iterations[i].stmt = None
          /\ iterations[j].stmt /= None
          /\ iterations[j].first > iterations[i].last
          /\ iterations[j].first <= SourceEnd(iterations[i].first)
          /\ \E k \in 1..Len(program[1].statements) :
                program[1].statements[k] = iterations[j].stmt[1]

(***************************************************************************)
(* Expression statements and their semicolon.                              *)
(***************************************************************************)
\* ts is two well-formed expressions with nothing between them, the second
\* beginning at position k + 1 with a token that is no binary operator
SplitsAt(ts, k) ==
    /\ ts[k + 1] \notin InfixTokens
    /\ \A i \in 1..Len(ts) : ts[i] /= Semicolon
    /\ Canon(SubSeq(ts, 1, k)) /= None
    /\ Canon(SubSeq(ts, k + 1, Len(ts))) /= None

TwoExpressions(ts) == \E k \in 1..(Len(ts) - 1) : SplitsAt(ts, k)

\* C11: when its expression is there, parse_expression_statement returns the
\* statement, appends no diagnostic, and advances by exactly one token onto
\* the semicolon when the peek token is a semicolon and not at all
\* otherwise; two well-formed expressions with no semicolon between them
\* (the second not beginning with a binary operator) give their two
\* expression statements and no diagnostic.
C11_SemicolonOptional ==
    [][/\ (In("parse_expression_statement", "after") /\ ret /= None) =>
             /\ stack' = Pop
             /\ ret' = Some(ExpressionStatement(Top.tok, ret[1]))
             /\ p'.errors = p.errors
             /\ IF p.peek = Semicolon
                THEN /\ idx'.cur = idx.cur + 1
                     /\ idx'.cur = idx.peek
                     /\ p'.cur = Semicolon
                     /\ p'.peek = TokenAt(idx'.peek)
                ELSE UNCHANGED <<p, idx>>
       /\ (Returned' /\ TwoExpressions(Input)) =>
             LET k == CHOOSE k \in 1..(Len(Input) - 1) : SplitsAt(Input, k)
             IN  /\ p'.errors = <<>>
                 /\ program' = Some([statements |->
                       <<ExpressionStatement(Input[1],
                            Canon(SubSeq(Input, 1, k))[1]),
                         ExpressionStatement(Input[k + 1],
                            Canon(SubSeq(Input, k + 1, Len(Input)))[1])>>])
      ]_vars

\* two expressions with a binary operator each and no semicolon anywhere
\* were parsed to two expression statements
C11_Witness ==
    /\ Returned
    /\ TwoExpressions(Input)
    /\ Len(program[1].statements) = 2
    /\ program[1].statements[1].expression.kind = "Infix"
    /\ program[1].statements[2].expression.kind = "Infix"
    /\ p.errors = <<>>

(***************************************************************************)
(* expect_peek.                                                            *)
(***************************************************************************)
\* the step holds a call of expect_peek(tag): what it does to the parser
ExpectPeekEffect(tag) ==
    IF p.peek = tag
    THEN /\ p'.cur = p.peek
         /\ p'.peek = IF p.l.position <= Len(Input)
                      THEN Input[p.l.position] ELSE Eof
         /\ p'.l.input = p.l.input
         /\ p'.l.position = IF p.l.position <= Len(Input)
                            THEN p.l.position + 1 ELSE p.l.position
         /\ p'.errors = p.errors
    ELSE /\ p'.cur = p.cur
         /\ p'.peek = p.peek
         /\ p'.l = p.l
         /\ Len(p'.errors) = Len(p.errors) + 1
         /\ SubSeq(p'.errors, 1, Len(p.errors)) = p.errors
         /\ p'.errors[Len(p'.errors)].want = tag
         /\ p'.errors[Len(p'.errors)].got = p.peek

\* C12: expect_peek(tag) on a peek token equal to tag advances the window by
\* exactly one token (current is the old peek, peek the next lexer token),
\* answers true (the caller goes on) and leaves the diagnostics; otherwise it
\* answers false (the caller returns no result), appends exactly one
\* diagnostic and leaves current token, peek token and lexer alone.
C12_ExpectPeekFrame ==
    [][/\ In("parse_let_statement", "expect_assign") =>
             /\ ExpectPeekEffect(Assign)
             /\ IF p.peek = Assign
                THEN In("parse_let_statement", "scan")' /\ ret' = ret
                ELSE ReturnsNone
       /\ In("parse_grouped_expression", "after") =>
             /\ ExpectPeekEffect(RParen)
             /\ stack' = Pop
             /\ ret' = IF p.peek = RParen THEN ret ELSE None
      ]_vars

\* `let a = 5; let a 5;` was parsed: expect_peek(Assign) advanced in the
\* first statement, and in the second it left one diagnostic and the window
\* where it was, so that `5` became a statement
C12_Witness ==
    /\ Returned
    /\ Input = <<Let, idA, Assign, n5, Semicolon, Let, idA, n5, Semicolon>>
    /\ p.errors = <<ExpectedMsg(Assign, n5)>>
    /\ Len(program[1].statements) = 2
    /\ program[1].statements[1].kind = "Let"
    /\ program[1].statements[2].kind = "Expression"

(***************************************************************************)
(* The defensive branches.                                                 *)
(***************************************************************************)
\* C13: no run executes the `_ => return left` arm of the infix loop, the
\* `_ => return None` arm of parse_prefix_expression or of
\* parse_infix_expression, or the panic!("unreachable") of parse_identifier
\* or of parse_integer_literal: where the loop guard of parse_expression
\* holds the peek token is a binary operator, parse_prefix_expression is
\* entered on `!` or `-` only, parse_infix_expression on a binary operator
\* only; parse() never panics.
C13_DefensiveBranchesDead ==
    /\ hits = {}
    /\ status /= "panicked"
    /\ (/\ In("parse_expression", "loop")
        /\ ~PeekTokenIs(p, Semicolon)
        /\ Top.precedence < PeekPrecedence(p)) => p.peek \in InfixTokens
    /\ In("parse_prefix_expression", "entry") => p.cur \in {Bang, Minus}
    /\ In("parse_infix_expression", "entry") => p.cur \in InfixTokens

\* `- a + 5` was parsed to ((-a) + 5): the infix loop, parse_identifier,
\* parse_integer_literal, parse_prefix_expression and parse_infix_expression
\* have all run
C13_Witness ==
    /\ Returned
    /\ Input = <<Minus, idA, Plus, n5>>
    /\ hits = {}
    /\ program[1].statements[1].expression.kind = "Infix"
    /\ program[1].statements[1].expression.left.kind = "Prefix"
    /\ program[1].statements[1].expression.left.right.kind = "Identifier"
    /\ program[1].statements[1].expression.right.kind = "Integer"

====
